---- MODULE Spec2Model ----
(***************************************************************************)
(* A model of the colorama translation layer of dirmap                    *)
(* (thirdlib/colorama): the stream translator AnsiToWin32 of               *)
(* ansitowin32.py, the attribute state WinTerm of winterm.py and the code  *)
(* catalogue of ansi.py.                                                   *)
(*                                                                         *)
(* Text is a sequence of characters; a character is a one-element string,  *)
(* with ESC, BEL and NL standing for \033, \x07 and \n.  The wrapped       *)
(* destination and the native console API of win32.py are the environment: *)
(* every call the translator makes on them is appended to log.             *)
(***************************************************************************)
EXTENDS Integers, Sequences, FiniteSets, TLC

VARIABLES
    winterm,     \* the module-level WinTerm object of ansitowin32.py:23, or absent
    console_ok,  \* whether the native console accepts SetConsole* requests
    wrapped,     \* the kind of the wrapped destination
    t,           \* the AnsiToWin32 instance
    lastOp,      \* the last call and its arguments
    log,         \* the calls that the last call made on the destination and the console
    outcome      \* "ok" or the exception that the last call raised

vars == <<winterm, console_ok, wrapped, t, lastOp, log, outcome>>

-----------------------------------------------------------------------------
(* Characters and strings                                                  *)

ESC == "ESC"
BEL == "BEL"
NL == "NL"

DigitChars == <<"0", "1", "2", "3", "4", "5", "6", "7", "8", "9">>

Digits == {DigitChars[i] : i \in 1..10}

DigitVal(c) == (CHOOSE i \in 1..10 : DigitChars[i] = c) - 1

\* str.isdigit() on a string of the ASCII characters the CSI pattern admits
isdigit(p) == p # <<>> /\ \A i \in 1..Len(p) : p[i] \in Digits

\* int(p) for a string of decimal digits
RECURSIVE int(_)
int(p) ==
    IF p = <<>> THEN 0
    ELSE int(SubSeq(p, 1, Len(p) - 1)) * 10 + DigitVal(p[Len(p)])

\* the decimal rendering of a natural number, as an f-string renders it
RECURSIVE str(_)
str(n) ==
    IF n < 10 THEN <<DigitChars[n + 1]>>
    ELSE str(n \div 10) \o <<DigitChars[(n % 10) + 1]>>

Min(a, b) == IF a < b THEN a ELSE b

\* text[a:b] of Python: 0-based, end exclusive, both indices clamped to len(text)
Slice(text, a, b) == SubSeq(text, Min(a, Len(text)) + 1, Min(b, Len(text)))

\* the index of the first c in s, 0 when there is none
FirstIdx(s, c) ==
    IF \E i \in 1..Len(s) : s[i] = c
    THEN CHOOSE i \in 1..Len(s) : s[i] = c /\ \A j \in 1..(i - 1) : s[j] # c
    ELSE 0

\* s.split(";")
RECURSIVE split(_)
split(s) ==
    LET i == FirstIdx(s, ";")
    IN  IF i = 0 THEN <<s>>
        ELSE <<SubSeq(s, 1, i - 1)>> \o split(SubSeq(s, i + 1, Len(s)))

\* p in q for two strings: p is a substring of q
IsSubstring(p, q) ==
    \E i \in 0..(Len(q) - Len(p)) : SubSeq(q, i + 1, i + Len(p)) = p

-----------------------------------------------------------------------------
(* ansi.py                                                                 *)

CSI == <<ESC, "[">>
OSC == <<ESC, "]">>

code_to_chars(code) == CSI \o str(code) \o <<"m">>

AnsiStyle_RESET_ALL == 0
AnsiStyle_BRIGHT == 1
AnsiStyle_DIM == 2
AnsiFore_RED == 31
AnsiBack_BLUE == 44

\* Style.RESET_ALL of the instance Style = AnsiStyle(): the rendered escape string
Style_RESET_ALL == code_to_chars(AnsiStyle_RESET_ALL)

-----------------------------------------------------------------------------
(* winterm.py                                                              *)

WinColor_BLUE == 1
WinColor_RED == 4
WinColor_GREY == 7
WinColors == 0..WinColor_GREY

WinStyle_NORMAL == 0
WinStyle_BRIGHT == 8
WinStyle_BRIGHT_BACKGROUND == 128

\* a | b and a & b on natural numbers
RECURSIVE BitOr(_, _)
BitOr(a, b) ==
    IF a = 0 THEN b
    ELSE IF b = 0 THEN a
    ELSE (IF a % 2 = 1 \/ b % 2 = 1 THEN 1 ELSE 0) + 2 * BitOr(a \div 2, b \div 2)

RECURSIVE BitAnd(_, _)
BitAnd(a, b) ==
    IF a = 0 \/ b = 0 THEN 0
    ELSE (IF a % 2 = 1 /\ b % 2 = 1 THEN 1 ELSE 0) + 2 * BitAnd(a \div 2, b \div 2)

\* the names class WinTerm defines: what an attribute access on winterm finds
WinTermAttrs ==
    {"set_console_attrs", "get_attrs", "reset_all", "set_foreground",
     "set_background", "move_cursor", "clear_screen", "erase_line", "set_title",
     "display_progress_bar", "print_styled", "animate_spinner"}

NoWinTerm ==
    [present |-> FALSE, default_attrs |-> 0, fore |-> 0, back |-> 0,
     style |-> 0, light_mode |-> 0]

reset_attributes(wt) ==
    [wt EXCEPT !.fore = BitAnd(wt.default_attrs, 7),
               !.back = BitAnd(wt.default_attrs \div 16, 7),
               !.style = BitAnd(wt.default_attrs,
                                BitOr(WinStyle_BRIGHT, WinStyle_BRIGHT_BACKGROUND))]

\* WinTerm(): wAttributes is what the console reports when the object is built.
\* The report is taken as given: win32.GetConsoleScreenBufferInfo is the
\* environment, and __init__ is modelled from the point where it has answered.
WinTerm_init(wAttributes) ==
    [reset_attributes([NoWinTerm EXCEPT !.present = TRUE,
                                        !.default_attrs = wAttributes])
        EXCEPT !.light_mode = 0]

\* get_attrs with _style and _light_mode added instead of or-ed
get_attrs_added(wt) == wt.fore + (wt.back * 16) + wt.style + wt.light_mode

get_attrs(wt) == wt.fore + (wt.back * 16) + BitOr(wt.style, wt.light_mode)

-----------------------------------------------------------------------------
(* The calls on the environment.  A call in progress is a record s:        *)
(* s.log the calls made so far, s.wt the WinTerm fields, s.err "ok" or the *)
(* exception that is propagating (every later step is then skipped).       *)

Ev(kind, text, val, ok) == [kind |-> kind, text |-> text, val |-> val, ok |-> ok]

Raise(s, e) == [s EXCEPT !.err = e]

Call(s, ev, e) ==
    IF s.err # "ok" THEN s
    ELSE IF ev.ok THEN [s EXCEPT !.log = Append(@, ev)]
    ELSE [s EXCEPT !.log = Append(@, ev), !.err = e]

WrappedKinds == {"open", "closed", "noattr"}

\* wrapped.write(data): a closed stream raises ValueError
wrapped_write(s, data) ==
    Call(s, Ev("write", data, 0, wrapped # "closed"), "ValueError")

wrapped_flush(s) ==
    Call(s, Ev("flush", <<>>, 0, wrapped # "closed"), "ValueError")

\* StreamWrapper.closed: getattr(wrapped, 'closed', True)
closed == wrapped \in {"closed", "noattr"}

\* win32.SetConsoleTextAttribute and win32.SetConsoleTitle
SetConsoleTextAttribute(s, attrs) ==
    Call(s, Ev("set_attrs", <<>>, attrs, console_ok), "RuntimeError")

SetConsoleTitle(s, title) ==
    Call(s, Ev("set_title", title, 0, console_ok), "RuntimeError")

set_console_attrs(s) ==
    IF s.err # "ok" THEN s ELSE SetConsoleTextAttribute(s, get_attrs(s.wt))

WinTerm_reset_all(s) ==
    IF s.err # "ok" THEN s
    ELSE set_console_attrs([s EXCEPT !.wt = reset_attributes(s.wt)])

set_foreground(s, color, light) ==
    IF s.err # "ok" THEN s
    ELSE set_console_attrs(
            [s EXCEPT !.wt.fore = color,
                      !.wt.light_mode = IF light THEN WinStyle_BRIGHT ELSE 0])

set_background(s, color, light) ==
    IF s.err # "ok" THEN s
    ELSE set_console_attrs(
            [s EXCEPT !.wt.back = color,
                      !.wt.light_mode =
                          IF light THEN WinStyle_BRIGHT_BACKGROUND ELSE 0])

set_title(s, title) == SetConsoleTitle(s, title)

\* print_styled(text, fore_color, back_color, style): an argument is <<>> for
\* None or <<v>>; print(text) goes to sys.stdout, which is not the wrapped stream
print_styled(s, fore_color, back_color, style) ==
    LET s1 == IF fore_color # <<>> THEN set_foreground(s, fore_color[1], FALSE) ELSE s
        s2 == IF back_color # <<>> THEN set_background(s1, back_color[1], FALSE) ELSE s1
        s3 == IF style # <<>> /\ s2.err = "ok"
              THEN set_console_attrs([s2 EXCEPT !.wt.style = style[1]])
              ELSE s2
    IN  WinTerm_reset_all(s3)

-----------------------------------------------------------------------------
(* ansitowin32.py: the two patterns.  A match is a record with the span of *)
(* Python's match.span() (0-based start, end exclusive) and group 1.       *)

\* the end of the longest run of [0-9;] that starts at index j (1-based)
RECURSIVE RunEnd(_, _)
RunEnd(text, j) ==
    IF j <= Len(text) /\ text[j] \in (Digits \cup {";"})
    THEN RunEnd(text, j + 1)
    ELSE j

\* the CSI pattern with the end of the text accepted in place of the final m
CsiEndAt_open(text, i) ==
    IF i + 1 <= Len(text) /\ text[i] = ESC /\ text[i + 1] = "["
    THEN LET j == RunEnd(text, i + 2)
         IN  IF j <= Len(text) /\ text[j] = "m" THEN j
             ELSE IF j > Len(text) THEN Len(text) ELSE 0
    ELSE 0

\* ANSI_CSI_RE = \033\[([0-9;]*)m anchored at index i: the index of the final m, or 0
CsiEndAt(text, i) ==
    IF i + 1 <= Len(text) /\ text[i] = ESC /\ text[i + 1] = "["
    THEN LET j == RunEnd(text, i + 2)
         IN  IF j <= Len(text) /\ text[j] = "m" THEN j ELSE 0
    ELSE 0

\* the first BEL at or after index k with no newline before it, or 0 ('.' matches no \n)
RECURSIVE LazyBel(_, _)
LazyBel(text, k) ==
    IF k > Len(text) THEN 0
    ELSE IF text[k] = BEL THEN k
    ELSE IF text[k] = NL THEN 0
    ELSE LazyBel(text, k + 1)

\* ANSI_OSC_RE = \033\](.*?)(\x07) anchored at index i: the index of the BEL, or 0
OscEndAt(text, i) ==
    IF i + 1 <= Len(text) /\ text[i] = ESC /\ text[i + 1] = "]"
    THEN LazyBel(text, i + 2)
    ELSE 0

Match(text, i, e) ==
    [start |-> i - 1, end |-> e, group |-> SubSeq(text, i + 2, e - 1)]

\* ANSI_CSI_RE.finditer(text): the non-overlapping matches, left to right
RECURSIVE CsiMatches(_, _)
CsiMatches(text, pos) ==
    IF pos > Len(text) THEN <<>>
    ELSE LET e == CsiEndAt(text, pos)
         IN  IF e > 0 THEN <<Match(text, pos, e)>> \o CsiMatches(text, e + 1)
             ELSE CsiMatches(text, pos + 1)

\* ANSI_OSC_RE.finditer(text)
RECURSIVE OscMatches(_, _)
OscMatches(text, pos) ==
    IF pos > Len(text) THEN <<>>
    ELSE LET e == OscEndAt(text, pos)
         IN  IF e > 0 THEN <<Match(text, pos, e)>> \o OscMatches(text, e + 1)
             ELSE OscMatches(text, pos + 1)

-----------------------------------------------------------------------------
(* ansitowin32.py: class AnsiToWin32                                       *)

NoCalls == [c \in {} |-> [attr |-> "", arg |-> 0]]

\* the dict literal of get_win32_calls: code -> (attribute of winterm, argument)
Win32CallsLiteral ==
    (AnsiStyle_RESET_ALL :> [attr |-> "reset_all", arg |-> 0])
    @@ (AnsiStyle_BRIGHT :> [attr |-> "style", arg |-> WinStyle_BRIGHT])
    @@ (AnsiStyle_DIM :> [attr |-> "style", arg |-> WinStyle_NORMAL])
    @@ (AnsiFore_RED :> [attr |-> "fore", arg |-> WinColor_RED])
    @@ (AnsiBack_BLUE :> [attr |-> "back", arg |-> WinColor_BLUE])

\* Building the dict reads every winterm.<attr>; one that class WinTerm does not
\* define raises AttributeError out of the constructor.
get_win32_calls(convert) ==
    IF ~(convert /\ winterm.present) THEN [err |-> "ok", calls |-> NoCalls]
    ELSE IF \E c \in DOMAIN Win32CallsLiteral :
                Win32CallsLiteral[c].attr \notin WinTermAttrs
         THEN [err |-> "AttributeError", calls |-> NoCalls]
         ELSE [err |-> "ok", calls |-> Win32CallsLiteral]

default_conversion(on_windows, winapi_test, isatty) ==
    on_windows /\ winapi_test /\ isatty

NoTranslator ==
    [state |-> "none", convert |-> FALSE, strip |-> FALSE, autoreset |-> FALSE,
     win32_calls |-> NoCalls]

\* AnsiToWin32(wrapped, convert, strip, autoreset); an argument is "None", "True" or "False"
AnsiToWin32_init(convert, strip, autoreset, on_windows, winapi_test, isatty) ==
    LET cv == IF convert # "None" THEN convert = "True"
              ELSE default_conversion(on_windows, winapi_test, isatty)
        sv == IF strip # "None" THEN strip = "True" ELSE ~cv
        calls == get_win32_calls(cv)
    IN  [state |-> IF calls.err = "ok" THEN "ok" ELSE calls.err,
         convert |-> cv, strip |-> sv, autoreset |-> autoreset,
         win32_calls |-> calls.calls]

\* func(*args) for an entry of win32_calls.  An entry holds a bound method of
\* winterm, so its attr is a name of WinTermAttrs; of those the literal names
\* only reset_all.
CallWinTerm(s, entry) ==
    CASE entry.attr = "reset_all" -> WinTerm_reset_all(s)
      [] OTHER -> s

\* params = [int(p) for p in paramstring.split(';') if p.isdigit()]
Params(paramstring) ==
    LET fields == split(paramstring)
        keep[k \in 0..Len(fields)] ==
            IF k = 0 THEN <<>>
            ELSE IF isdigit(fields[k]) THEN Append(keep[k - 1], int(fields[k]))
            ELSE keep[k - 1]
    IN  keep[Len(fields)]

handle_ansi_sequence(s, paramstring) ==
    LET params == Params(paramstring)
        run[k \in 0..Len(params)] ==
            IF k = 0 THEN s
            ELSE IF run[k - 1].err = "ok" /\ params[k] \in DOMAIN t.win32_calls
                 THEN CallWinTerm(run[k - 1], t.win32_calls[params[k]])
                 ELSE run[k - 1]
    IN  run[Len(params)]

\* write_plain_text with the slice begun one character late
write_plain_text_late(s, text, start, end) ==
    IF s.err = "ok" /\ start < end
    THEN wrapped_flush(wrapped_write(s, Slice(text, start + 1, end)))
    ELSE s

write_plain_text(s, text, start, end) ==
    IF s.err = "ok" /\ start < end
    THEN wrapped_flush(wrapped_write(s, Slice(text, start, end)))
    ELSE s

\* The body of the loop of convert_osc for one match m; r.text is the local text.
\* winterm.set_title(params[1]) reads winterm.set_title, then params[1], then calls.
convert_osc_step(r, m) ==
    LET cut == Slice(r.text, 0, m.start) \o Slice(r.text, m.end, Len(r.text))
        params == split(m.group)
    IN  IF r.s.err # "ok" THEN r
        ELSE IF ~IsSubstring(params[1], <<"0", "2">>) THEN [r EXCEPT !.text = cut]
        ELSE IF ~winterm.present
             THEN [text |-> cut, s |-> Raise(r.s, "AttributeError")]
        ELSE IF Len(params) < 2
             THEN [text |-> cut, s |-> Raise(r.s, "IndexError")]
        ELSE [text |-> cut, s |-> set_title(r.s, params[2])]

\* convert_osc: the matches are those of the text as passed in
convert_osc(s, text) ==
    LET ms == OscMatches(text, 1)
        run[k \in 0..Len(ms)] ==
            IF k = 0 THEN [text |-> text, s |-> s]
            ELSE convert_osc_step(run[k - 1], ms[k])
    IN  run[Len(ms)]

process_text(s, text0) ==
    LET r == convert_osc(s, text0)
        text == r.text
        ms == CsiMatches(text, 1)
        run[k \in 0..Len(ms)] ==
            IF k = 0 THEN r.s
            ELSE handle_ansi_sequence(
                    write_plain_text(run[k - 1], text,
                                     IF k = 1 THEN 0 ELSE ms[k - 1].end,
                                     ms[k].start),
                    ms[k].group)
        cursor == IF Len(ms) = 0 THEN 0 ELSE ms[Len(ms)].end
    IN  write_plain_text(run[Len(ms)], text, cursor, Len(text))

\* reset_all with the literal reset emitted when stripping instead of when not
reset_all_when_strip(s) ==
    IF s.err # "ok" THEN s
    ELSE IF t.convert THEN handle_ansi_sequence(s, <<"0">>)
    ELSE IF t.strip /\ ~closed THEN wrapped_write(s, Style_RESET_ALL)
    ELSE s

reset_all(s) ==
    IF s.err # "ok" THEN s
    ELSE IF t.convert THEN handle_ansi_sequence(s, <<"0">>)
    ELSE IF ~t.strip /\ ~closed THEN wrapped_write(s, Style_RESET_ALL)
    ELSE s

\* write with the text processed in every mode, Passthrough included
write_always_processed(s, text) ==
    LET s1 == process_text(s, text)
    IN  IF t.autoreset THEN reset_all(s1) ELSE s1

write(s, text) ==
    LET s1 == IF t.strip \/ t.convert THEN process_text(s, text)
              ELSE wrapped_write(s, text)
    IN  IF t.autoreset THEN reset_all(s1) ELSE s1

-----------------------------------------------------------------------------
(* The texts that are written                                              *)

MaxPieces == 2

CsiSeq(params) == CSI \o params \o <<"m">>
OscSeq(payload) == OSC \o payload \o <<BEL>>

Pieces ==
    { <<"a">>,
      CsiSeq(<<"3", "1">>),
      OscSeq(<<"0", ";", "a">>),
      OscSeq(<<"1">>),
      CSI \o <<"3", "1">> }

RECURSIVE PieceTexts(_)
PieceTexts(n) ==
    IF n = 0 THEN {<<>>}
    ELSE LET shorter == PieceTexts(n - 1)
         IN  shorter \cup {x \o p : x \in shorter, p \in Pieces}

ExtraTexts ==
    { CsiSeq(<<"3", "1", ";", "3", "2">>),
      CsiSeq(<<"0">>),
      CsiSeq(<<"1">>) \o CsiSeq(<<"0">>),
      CsiSeq(<<"3", "1">>) \o <<"R", "E", "D">> \o CsiSeq(<<"0">>) \o <<" ", "p">>,
      CsiSeq(<<"9", ";", ";", "x">>),
      CsiSeq(<<";", "5", ";", "3", "1">>),
      CsiSeq(<<>>),
      OscSeq(<<"2", ";", "a", ";", "b">>),
      OscSeq(<<"2", ";", "M", "y", " ", "T">>),
      OscSeq(<<>>),
      OscSeq(<<"0">>),
      OscSeq(<<"0", "2", ";", "a">>),
      OscSeq(<<";", "a">>),
      OscSeq(<<"1", ";", "a">>),
      OscSeq(<<"0", ";", "a", NL, "b">>),
      OSC \o <<"0", ";", "a">>,
      <<"a", "b", "c">> \o CSI \o <<"3", "1">>,
      <<"a">> \o OscSeq(<<"0", ";", "T">>) \o <<"b">>,
      OscSeq(<<"1">>) \o <<"a">> \o OscSeq(<<"1">>) \o <<"b">>,
      <<ESC>> \o CsiSeq(<<>>) \o <<"[", "m">>,
      CSI \o OscSeq(<<"1">>) \o <<"m">>,
      <<"m", ";", "[", "]", BEL, NL>> }

Texts == PieceTexts(MaxPieces) \cup ExtraTexts

-----------------------------------------------------------------------------
(* The state machine of one translator                                     *)

\* wAttributes of the console when WinTerm() runs at import
TranslatorDefaults == {7}

NoOp ==
    [op |-> "none", text |-> <<>>, convert |-> "None", strip |-> "None",
     on_windows |-> FALSE, winapi_test |-> FALSE, isatty |-> FALSE,
     color |-> 0, light |-> FALSE, fore |-> <<>>, back |-> <<>>, style |-> <<>>]

Args == {"None", "True", "False"}

Start(wt) == [log |-> <<>>, wt |-> wt, err |-> "ok"]

Init ==
    /\ winterm \in {NoWinTerm} \cup {WinTerm_init(d) : d \in TranslatorDefaults}
    /\ console_ok \in (IF winterm.present THEN BOOLEAN ELSE {TRUE})
    /\ wrapped \in WrappedKinds
    /\ t = NoTranslator
    /\ lastOp = NoOp
    /\ log = <<>>
    /\ outcome = "none"

\* windll exists on Windows only, and without it winapi_test is the stub returning False
Construct(convert, strip, autoreset, on_windows, winapi_test, isatty) ==
    /\ t.state = "none"
    /\ winterm.present => on_windows
    /\ winapi_test => winterm.present
    /\ t' = AnsiToWin32_init(convert, strip, autoreset, on_windows, winapi_test, isatty)
    /\ lastOp' = [NoOp EXCEPT !.op = "init", !.convert = convert, !.strip = strip,
                              !.on_windows = on_windows,
                              !.winapi_test = winapi_test, !.isatty = isatty]
    /\ outcome' = t'.state
    /\ log' = <<>>
    /\ UNCHANGED <<winterm, console_ok, wrapped>>

Finish(s) ==
    /\ log' = s.log
    /\ winterm' = s.wt
    /\ outcome' = s.err
    /\ UNCHANGED <<console_ok, wrapped, t>>

Write(text) ==
    /\ t.state = "ok"
    /\ lastOp' = [NoOp EXCEPT !.op = "write", !.text = text]
    /\ Finish(write(Start(winterm), text))

ResetAll ==
    /\ t.state = "ok"
    /\ lastOp' = [NoOp EXCEPT !.op = "reset_all"]
    /\ Finish(reset_all(Start(winterm)))

Next ==
    \/ \E convert \in Args, strip \in Args, autoreset \in BOOLEAN,
          on_windows \in BOOLEAN, winapi_test \in BOOLEAN, isatty \in BOOLEAN :
            Construct(convert, strip, autoreset, on_windows, winapi_test, isatty)
    \/ \E text \in Texts : Write(text)
    \/ ResetAll

Spec == Init /\ [][Next]_vars

-----------------------------------------------------------------------------
(* The state machine of the WinTerm object used on its own                 *)

DefaultAttrs == {7, 112, 143}

Optional(S) == {<<>>} \cup {<<v>> : v \in S}

WinStyles == {WinStyle_NORMAL, WinStyle_BRIGHT, WinStyle_BRIGHT_BACKGROUND}

InitWinTerm ==
    /\ winterm \in {WinTerm_init(d) : d \in DefaultAttrs}
    /\ console_ok \in BOOLEAN
    /\ wrapped = "open"
    /\ t = NoTranslator
    /\ lastOp = NoOp
    /\ log = <<>>
    /\ outcome = "none"

FinishWinTerm(s) ==
    /\ log' = s.log
    /\ winterm' = s.wt
    /\ outcome' = s.err
    /\ UNCHANGED <<console_ok, wrapped, t>>

SetForeground(color, light) ==
    /\ lastOp' = [NoOp EXCEPT !.op = "set_foreground", !.color = color, !.light = light]
    /\ FinishWinTerm(set_foreground(Start(winterm), color, light))

SetBackground(color, light) ==
    /\ lastOp' = [NoOp EXCEPT !.op = "set_background", !.color = color, !.light = light]
    /\ FinishWinTerm(set_background(Start(winterm), color, light))

WinTermResetAll ==
    /\ lastOp' = [NoOp EXCEPT !.op = "WinTerm_reset_all"]
    /\ FinishWinTerm(WinTerm_reset_all(Start(winterm)))

PrintStyled(fore_color, back_color, style) ==
    /\ lastOp' = [NoOp EXCEPT !.op = "print_styled", !.fore = fore_color,
                              !.back = back_color, !.style = style]
    /\ FinishWinTerm(print_styled(Start(winterm), fore_color, back_color, style))

NextWinTerm ==
    \/ \E color \in WinColors, light \in BOOLEAN : SetForeground(color, light)
    \/ \E color \in WinColors, light \in BOOLEAN : SetBackground(color, light)
    \/ WinTermResetAll
    \/ \E fore_color \in Optional({WinColor_RED}), back_color \in Optional({WinColor_BLUE}),
          style \in Optional(WinStyles) : PrintStyled(fore_color, back_color, style)

SpecWinTerm == InitWinTerm /\ [][NextWinTerm]_vars

-----------------------------------------------------------------------------
(* What the properties speak of                                            *)

Range(f) == {f[i] : i \in DOMAIN f}

RECURSIVE Concat(_)
Concat(ss) == IF ss = <<>> THEN <<>> ELSE Head(ss) \o Concat(Tail(ss))

IsWrite(e) == e.kind = "write" /\ e.ok
IsNative(e) == e.kind \in {"set_attrs", "set_title"}

\* the characters the destination accepted during the last call, in order
Delivered(lg) ==
    LET ws == SelectSeq(lg, IsWrite)
    IN  Concat([i \in 1..Len(ws) |-> ws[i].text])

\* the native console calls of the last call
NativeCalls(lg) == SelectSeq(lg, IsNative)

ConvertMode == t.state = "ok" /\ t.convert
StripMode == t.state = "ok" /\ t.strip /\ ~t.convert
PassthroughMode == t.state = "ok" /\ ~t.strip /\ ~t.convert

LiteralReset == <<ESC, "[", "0", "m">>

\* text with every BEL-terminated OSC sequence cut out
RECURSIVE WithoutOsc(_, _)
WithoutOsc(text, i) ==
    IF i > Len(text) THEN <<>>
    ELSE IF OscEndAt(text, i) > 0 THEN WithoutOsc(text, OscEndAt(text, i) + 1)
    ELSE <<text[i]>> \o WithoutOsc(text, i + 1)

\* text with every CSI SGR sequence cut out
RECURSIVE WithoutCsi(_, _)
WithoutCsi(text, i) ==
    IF i > Len(text) THEN <<>>
    ELSE IF CsiEndAt(text, i) > 0 THEN WithoutCsi(text, CsiEndAt(text, i) + 1)
    ELSE <<text[i]>> \o WithoutCsi(text, i + 1)

\* text with the OSC sequences and then the CSI SGR sequences removed, the order
\* in which process_text looks for them
Stripped(text) == WithoutCsi(WithoutOsc(text, 1), 1)

-----------------------------------------------------------------------------
(* C1..C10                                                                 *)

\* C1: a Strip-mode write that returns normally has delivered exactly the input
\* with every CSI SGR and every BEL-terminated OSC sequence removed, each other
\* character once and in order.
C1_StripDeliversPlainSpans ==
    (lastOp.op = "write" /\ StripMode /\ wrapped = "open" /\ outcome = "ok")
        => Delivered(log) = Stripped(lastOp.text)

\* C2: stripping is idempotent: writing what a Strip-mode write delivered
\* delivers exactly the same characters again.  Stated for the inputs whose
\* plain spans hold no ESC, where removing the sequences leaves nothing to strip.
C2_StripIdempotent ==
    (lastOp.op = "write" /\ StripMode /\ wrapped = "open" /\ outcome = "ok"
     /\ ESC \notin Range(Stripped(lastOp.text)))
        => LET again == write(Start(winterm), Delivered(log))
           IN  again.err = "ok" /\ Delivered(again.log) = Delivered(log)

\* C3: with autoreset disabled, in each of the three modes, a write of a text
\* without ESC to a destination that accepts writes returns normally, delivers
\* exactly the text and makes no native console call.
C3_PlainTextRoundTrip ==
    (lastOp.op = "write" /\ ~t.autoreset /\ ESC \notin Range(lastOp.text)
     /\ wrapped # "closed")
        => (outcome = "ok" /\ Delivered(log) = lastOp.text
            /\ NativeCalls(log) = <<>>)

C3_Witness ==
    /\ lastOp.op = "write" /\ ConvertMode /\ ~t.autoreset /\ outcome = "ok"
    /\ lastOp.text = <<"a", "a">>
    /\ Delivered(log) = <<"a", "a">>

\* C4: a Strip-mode write makes no native console call.
C4_StripMakesNoNativeCall ==
    (lastOp.op = "write" /\ StripMode /\ wrapped = "open" /\ console_ok)
        => NativeCalls(log) = <<>>

\* C5: with neither convert nor strip given, construction resolves to Convert
\* exactly when on Windows, the console API test succeeds and the destination is
\* a terminal; otherwise to Strip when the destination is no terminal and to
\* Passthrough when it is one.
C5_AutoModeResolution ==
    (lastOp.op = "init" /\ lastOp.convert = "None" /\ lastOp.strip = "None")
        => LET conv == lastOp.on_windows /\ lastOp.winapi_test /\ lastOp.isatty
           IN  /\ t.state = "ok"
               /\ t.convert = conv
               /\ t.strip = (~conv /\ ~lastOp.isatty)

C7_ResetReturnsToDefault ==
    (lastOp.op = "WinTerm_reset_all" /\ outcome = "ok")
        => /\ winterm = WinTerm_init(winterm.default_attrs)
           /\ log[Len(log)].val = get_attrs(WinTerm_init(winterm.default_attrs))

\* C8: with autoreset enabled in Convert mode, after every write that returns
\* normally there is an attribute state and it equals the captured default.
C8_AutoresetContainment ==
    (lastOp.op = "write" /\ ConvertMode /\ t.autoreset /\ wrapped = "open"
     /\ outcome = "ok")
        => (winterm.present /\ winterm = WinTerm_init(winterm.default_attrs))

\* the console colour of an ANSI foreground code 30..37
ForegroundOf(code) == <<0, 4, 2, 6, 1, 5, 3, 7>>[code - 29]

IsTwoForegrounds(text) ==
    /\ Len(text) >= 3 /\ CsiEndAt(text, 1) = Len(text)
    /\ LET fields == split(SubSeq(text, 3, Len(text) - 1))
       IN  /\ Len(fields) = 2
           /\ \A k \in 1..2 : isdigit(fields[k]) /\ int(fields[k]) \in 30..37

\* C9: in Convert mode, after a write of one CSI token with two foreground
\* codes of 30..37 the foreground of the attribute state is that of the last.
C9_LaterParameterWins ==
    (lastOp.op = "write" /\ ConvertMode /\ wrapped = "open"
     /\ IsTwoForegrounds(lastOp.text))
        => /\ outcome = "ok"
           /\ winterm.present
           /\ winterm.fore =
                ForegroundOf(int(split(SubSeq(lastOp.text, 3, Len(lastOp.text) - 1))[2]))

IsTitleSequence(text) ==
    /\ Len(text) >= 5
    /\ SubSeq(text, 1, 2) = OSC
    /\ text[3] \in {"0", "2"} /\ text[4] = ";"
    /\ text[Len(text)] = BEL
    /\ BEL \notin Range(SubSeq(text, 5, Len(text) - 1))

\* C10: in Convert mode a write of one title sequence ESC ] k ; title BEL makes
\* exactly one set-title call, with the whole title, and delivers nothing.
C10_TitleExtraction ==
    (lastOp.op = "write" /\ ConvertMode /\ wrapped = "open"
     /\ IsTitleSequence(lastOp.text))
        => /\ Len(NativeCalls(log)) = 1
           /\ NativeCalls(log)[1].kind = "set_title"
           /\ NativeCalls(log)[1].text = SubSeq(lastOp.text, 5, Len(lastOp.text) - 1)
           /\ Delivered(log) = <<>>

-----------------------------------------------------------------------------
(* C11..C20                                                                *)

IsIntroducer(text, i) ==
    i + 1 <= Len(text) /\ text[i] = ESC /\ text[i + 1] \in {"[", "]"}

\* text holds an introducer, and no introducer of it is followed by its
\* terminator: no ESC[ by m after only digits and ';', no ESC] by a BEL
OnlyUnterminated(text) ==
    /\ \E i \in 1..Len(text) : IsIntroducer(text, i)
    /\ \A i \in 1..Len(text) :
          IsIntroducer(text, i) =>
              IF text[i + 1] = "["
              THEN LET j == RunEnd(text, i + 2)
                   IN  ~(j <= Len(text) /\ text[j] = "m")
              ELSE BEL \notin Range(SubSeq(text, i + 2, Len(text)))

\* C11: a Strip-mode or Passthrough-mode write of a text whose introducers are
\* all unterminated, to a destination that accepts writes, returns normally,
\* makes no native call and delivers the whole text unchanged; the only
\* characters after it are the literal reset of autoreset in Passthrough mode.
C11_UnterminatedFallback ==
    (lastOp.op = "write" /\ (StripMode \/ PassthroughMode) /\ wrapped # "closed"
     /\ OnlyUnterminated(lastOp.text))
        => /\ outcome = "ok"
           /\ NativeCalls(log) = <<>>
           /\ Delivered(log) =
                lastOp.text \o (IF t.autoreset /\ PassthroughMode /\ ~closed
                                THEN LiteralReset ELSE <<>>)

C11_Witness ==
    /\ lastOp.op = "write" /\ StripMode /\ ~t.autoreset /\ outcome = "ok"
    /\ lastOp.text = <<"a", "b", "c", ESC, "[", "3", "1">>
    /\ Delivered(log) = lastOp.text

\* C12: a write of a non-empty text while the destination reports itself closed
\* ends in an error, whoever raises it.
C12_ClosedDestinationRejected ==
    (lastOp.op = "write" /\ t.state = "ok" /\ closed /\ lastOp.text # <<>>)
        => outcome # "ok"

\* C13: while there is no native console (winterm is None) the translator is
\* never in Convert mode, and no call raises for having reached through the
\* absent winterm.
C13_AbsentCapabilityNeverUsed ==
    (~winterm.present /\ t.state = "ok")
        => (~t.convert /\ outcome # "AttributeError")

\* the kinds of the events of a log, in order
Kinds(lg) == [k \in 1..Len(lg) |-> lg[k].kind]

\* ESC[31m RED ESC[0m ' p'
RedThenPlain ==
    CsiSeq(<<"3", "1">>) \o <<"R", "E", "D">> \o CsiSeq(<<"0">>) \o <<" ", "p">>

\* C14: a Convert-mode write of ESC[31m RED ESC[0m ' p', autoreset off, makes
\* these calls in this order: set attributes, write RED, flush, set attributes,
\* write ' p', flush.
C14_CsiEffectsInOrder ==
    (lastOp.op = "write" /\ ConvertMode /\ ~t.autoreset /\ wrapped = "open"
     /\ console_ok /\ lastOp.text = RedThenPlain)
        => /\ Kinds(log) = <<"set_attrs", "write", "flush", "set_attrs", "write", "flush">>
           /\ log[2].text = <<"R", "E", "D">>
           /\ log[5].text = <<" ", "p">>

\* 'a' ESC]0;T BEL 'b'
TitleBetweenPlain == <<"a">> \o OscSeq(<<"0", ";", "T">>) \o <<"b">>

\* C15: a Convert-mode write of 'a' ESC]0;T BEL 'b' writes 'a', then sets the
\* title T, then writes 'b'.
C15_OscEffectsInOrder ==
    (lastOp.op = "write" /\ ConvertMode /\ ~t.autoreset /\ wrapped = "open"
     /\ console_ok /\ lastOp.text = TitleBetweenPlain)
        => /\ Kinds(log) = <<"write", "flush", "set_title", "write", "flush">>
           /\ log[1].text = <<"a">>
           /\ log[3].text = <<"T">>
           /\ log[4].text = <<"b">>

\* text is exactly one CSI SGR token
IsOneCsiToken(text) == Len(text) >= 3 /\ CsiEndAt(text, 1) = Len(text)

\* the parameters of the token that text is
TokenParams(text) == Params(SubSeq(text, 3, Len(text) - 1))

IsSetAttrs(e) == e.kind = "set_attrs"

\* C16: a Convert-mode write of one CSI token that has a parameter of the table
\* of get_win32_calls makes exactly one set-attributes call.
C16_OneNativeCallPerToken ==
    (lastOp.op = "write" /\ ConvertMode /\ ~t.autoreset /\ wrapped = "open"
     /\ console_ok /\ IsOneCsiToken(lastOp.text)
     /\ \E k \in 1..Len(TokenParams(lastOp.text)) :
            TokenParams(lastOp.text)[k] \in DOMAIN Win32CallsLiteral)
        => Len(SelectSeq(log, IsSetAttrs)) = 1

\* text is exactly one BEL-terminated OSC sequence
IsOneOscSequence(text) ==
    /\ Len(text) >= 3
    /\ SubSeq(text, 1, 2) = OSC
    /\ text[Len(text)] = BEL
    /\ BEL \notin Range(SubSeq(text, 3, Len(text) - 1))

\* the first ';'-separated field of the payload of the sequence that text is
FirstField(text) == split(SubSeq(text, 3, Len(text) - 1))[1]

\* C17: a Strip-mode or Convert-mode write of one OSC sequence whose first field
\* is neither '0' nor '2' returns normally, sets no title and delivers nothing.
C17_NonTitleOscDropped ==
    (lastOp.op = "write" /\ (StripMode \/ ConvertMode) /\ ~t.autoreset
     /\ wrapped = "open" /\ console_ok
     /\ IsOneOscSequence(lastOp.text)
     /\ FirstField(lastOp.text) \notin {<<"0">>, <<"2">>})
        => /\ outcome = "ok"
           /\ NativeCalls(log) = <<>>
           /\ Delivered(log) = <<>>

\* the ';'-separated fields of the token that text is
TokenFields(text) == split(SubSeq(text, 3, Len(text) - 1))

\* a field that handle_ansi_sequence is to skip: empty, or no key of the table
IsUnrecognized(field) ==
    ~isdigit(field) \/ int(field) \notin DOMAIN Win32CallsLiteral

\* C18: a Convert-mode write of one CSI token that has both a field to skip and
\* a parameter of the table of get_win32_calls returns normally, and the
\* parameters of the table are applied: one attribute call is made for each.
C18_UnrecognizedIgnoredRestApplied ==
    (lastOp.op = "write" /\ ConvertMode /\ ~t.autoreset /\ wrapped = "open"
     /\ console_ok /\ IsOneCsiToken(lastOp.text)
     /\ (\E i \in 1..Len(TokenFields(lastOp.text)) :
            IsUnrecognized(TokenFields(lastOp.text)[i]))
     /\ (\E j \in 1..Len(TokenFields(lastOp.text)) :
            ~IsUnrecognized(TokenFields(lastOp.text)[j])))
        => /\ outcome = "ok"
           /\ Len(NativeCalls(log)) =
                Cardinality({k \in 1..Len(TokenFields(lastOp.text)) :
                                ~IsUnrecognized(TokenFields(lastOp.text)[k])})

ForeBright(wt) == BitAnd(BitOr(wt.style, wt.light_mode), WinStyle_BRIGHT)
BackBright(wt) == BitAnd(BitOr(wt.style, wt.light_mode), WinStyle_BRIGHT_BACKGROUND)

\* C20: set_background leaves the foreground colour and the foreground
\* brightness as they were, and set_foreground leaves the background colour
\* and the background brightness as they were (stated for the calls that return
\* normally).
C20_ForeAndBackIndependent ==
    [][/\ (lastOp'.op = "set_background" /\ outcome' = "ok") =>
              (winterm'.fore = winterm.fore /\ ForeBright(winterm') = ForeBright(winterm))
       /\ (lastOp'.op = "set_foreground" /\ outcome' = "ok") =>
              (winterm'.back = winterm.back /\ BackBright(winterm') = BackBright(winterm))
      ]_vars

-----------------------------------------------------------------------------
(* C21..C22                                                                *)

\* bit k of the natural number n
Bit(n, k) == (n \div (2 ^ k)) % 2

\* C21: the packed value of the WinTerm object lies in 0..255; its bits 0-2 are
\* the foreground colour and its bits 4-6 the background colour; bit 3 and bit
\* 7 are set exactly when _style or _light_mode holds the flag, and these two
\* fields hold no other bit; after set_foreground, set_background and reset_all
\* it is the value sent to the console; and right after construction it is the
\* captured default, for every default of 0..255.
C21_PackedValueInvariant ==
    LET v == get_attrs(winterm)
    IN  /\ v \in 0..255
        /\ winterm.fore \in 0..7 /\ winterm.back \in 0..7
        /\ v % 8 = winterm.fore
        /\ (v \div 16) % 8 = winterm.back
        /\ winterm.style \in {0, 8, 128, 136}
        /\ winterm.light_mode \in {0, 8, 128}
        /\ Bit(v, 3) = 1 <=> (Bit(winterm.style, 3) = 1 \/ Bit(winterm.light_mode, 3) = 1)
        /\ Bit(v, 7) = 1 <=> (Bit(winterm.style, 7) = 1 \/ Bit(winterm.light_mode, 7) = 1)
        /\ lastOp.op \in {"set_foreground", "set_background", "WinTerm_reset_all"}
              => (Len(log) = 1 /\ log[1].kind = "set_attrs" /\ log[1].val = v)
        /\ lastOp.op = "none"
              => /\ v = winterm.default_attrs
                 /\ \A d \in 0..255 : get_attrs(WinTerm_init(d)) = d

C21_Witness ==
    /\ lastOp.op = "set_background" /\ lastOp.light /\ lastOp.color = 7
    /\ outcome = "ok"
    /\ winterm.default_attrs = 143
    /\ winterm.light_mode = 128
    /\ get_attrs(winterm) = 255

\* C22: a Passthrough-mode write forwards the text, sequences included, in one
\* write to the destination and makes no native call and no flush; after it
\* comes one write of the literal ESC[0m when autoreset is on and the
\* destination does not report closed, and nothing otherwise.  A closed stream
\* raises on the forwarded write, which ends the call.
C22_PassthroughOutput ==
    (lastOp.op = "write" /\ PassthroughMode)
        => IF wrapped = "closed"
           THEN /\ log = <<Ev("write", lastOp.text, 0, FALSE)>>
                /\ outcome = "ValueError"
           ELSE /\ outcome = "ok"
                /\ log = <<Ev("write", lastOp.text, 0, TRUE)>>
                         \o (IF t.autoreset /\ ~closed
                             THEN <<Ev("write", LiteralReset, 0, TRUE)>>
                             ELSE <<>>)

C22_Witness ==
    /\ lastOp.op = "write" /\ PassthroughMode /\ t.autoreset /\ wrapped = "open"
    /\ lastOp.text = CsiSeq(<<"3", "1">>) \o <<"a">>
    /\ Delivered(log) = lastOp.text \o LiteralReset
    /\ Len(log) = 2

====
